---------------------------- MODULE Spec2Model ----------------------------
(***************************************************************************)
(* Model of pict_de_rez.py (wiesmann/QuickDrawViewer): the line scanner    *)
(* derez_pict that turns a DeRez text dump into PICT files, and main, which *)
(* applies it to each input file in turn.  The repository holds the script *)
(* twice, tools/pict_de_rez.py and QuickDrawViewer/pict_de_rez.py; the two *)
(* differ in the header pattern and in how the file name is chosen.  The   *)
(* definitions named Viewer... model the second, the others the first.     *)
(*                                                                         *)
(* Text is modelled as sequences of one-character strings, bytes as        *)
(* sequences of integers 0..255, so that the regular expressions, the      *)
(* descriptor parsing and the hex decoding are computed, not assumed.      *)
(***************************************************************************)
EXTENDS Integers, Sequences, FiniteSets, TLC

(***************************************************************************)
(* Python values                                                           *)
(***************************************************************************)

\* Python's None, for a variable that otherwise holds a str.  No text equals
\* it: text is a sequence of one-character strings.
None == <<"None">>

\* Truth value of a str-or-None, as `if resource_name:` tests it.
Truthy(s) == s # None /\ s # <<>>

\* The characters \s matches and str.strip() removes.
Whitespace == {" ", "\t", "\n", "\r"}

Digits == {"0", "1", "2", "3", "4", "5", "6", "7", "8", "9"}

UpperAZ ==
  {"A", "B", "C", "D", "E", "F", "G", "H", "I", "J", "K", "L", "M",
   "N", "O", "P", "Q", "R", "S", "T", "U", "V", "W", "X", "Y", "Z"}

HexUpper ==
  <<"0", "1", "2", "3", "4", "5", "6", "7", "8", "9", "A", "B", "C", "D", "E", "F">>

HexLower ==
  <<"0", "1", "2", "3", "4", "5", "6", "7", "8", "9", "a", "b", "c", "d", "e", "f">>

IsHexDigit(c) == \E i \in 1..16 : HexUpper[i] = c \/ HexLower[i] = c

HexVal(c) == (CHOOSE i \in 1..16 : HexUpper[i] = c \/ HexLower[i] = c) - 1

\* s[i:j] with 1-based inclusive bounds; empty when j < i.
Slice(s, i, j) == IF j < i THEN <<>> ELSE SubSeq(s, i, j)

\* The character of s at position i, or a value no character equals when the
\* position is past the end (the regular expression then fails to match).
CharAt(s, i) == IF i >= 1 /\ i <= Len(s) THEN s[i] ELSE "<eol>"

\* First position >= i of s that holds a character outside `set`
\* (Len(s) + 1 when there is none): the end of a greedy run [set]*.
RECURSIVE SkipWhile(_, _, _)
SkipWhile(s, i, set) ==
  IF i <= Len(s) /\ s[i] \in set THEN SkipWhile(s, i + 1, set) ELSE i

\* First position >= i of s that holds the character c (Len(s) + 1 if none):
\* the end of a greedy run [^c]*.
RECURSIVE SkipUntil(_, _, _)
SkipUntil(s, i, c) ==
  IF i <= Len(s) /\ s[i] # c THEN SkipUntil(s, i + 1, c) ELSE i

\* str.replace(c, ""): s without the characters equal to c.
RECURSIVE Remove(_, _)
Remove(s, c) ==
  IF s = <<>> THEN <<>>
  ELSE IF Head(s) = c THEN Remove(Tail(s), c)
  ELSE <<Head(s)>> \o Remove(Tail(s), c)

\* str.strip(chars): s without its leading and trailing characters of `set`.
RECURSIVE StripRight(_, _)
StripRight(s, set) ==
  IF s # <<>> /\ s[Len(s)] \in set THEN StripRight(SubSeq(s, 1, Len(s) - 1), set)
  ELSE s

Strip(s, set) ==
  LET t == StripRight(s, set)
  IN  Slice(t, SkipWhile(t, 1, set), Len(t))

\* str.split(c): the parts of s between occurrences of c (always at least one).
RECURSIVE Split(_, _)
Split(s, c) ==
  LET k == SkipUntil(s, 1, c)
  IN  IF k > Len(s) THEN <<s>>
      ELSE <<Slice(s, 1, k - 1)>> \o Split(Slice(s, k + 1, Len(s)), c)

\* bytes.fromhex that skips no white space: pairs of hex digits only.
RECURSIVE fromhexNoWhitespace(_)
fromhexNoWhitespace(s) ==
  IF s = <<>> THEN [ok |-> TRUE, bytes |-> <<>>]
  ELSE IF Len(s) >= 2 /\ IsHexDigit(s[1]) /\ IsHexDigit(s[2])
       THEN LET rest == fromhexNoWhitespace(SubSeq(s, 3, Len(s)))
            IN  [ok |-> rest.ok,
                 bytes |-> <<16 * HexVal(s[1]) + HexVal(s[2])>> \o rest.bytes]
  ELSE [ok |-> FALSE, bytes |-> <<>>]

\* bytes.fromhex(s): pairs of hex digits, ASCII whitespace skipped between
\* the pairs (never inside one); anything else is a ValueError.
RECURSIVE fromhex(_)
fromhex(s) ==
  IF s = <<>> THEN [ok |-> TRUE, bytes |-> <<>>]
  ELSE IF Head(s) \in Whitespace THEN fromhex(Tail(s))
  ELSE IF Len(s) >= 2 /\ IsHexDigit(s[1]) /\ IsHexDigit(s[2])
       THEN LET rest == fromhex(SubSeq(s, 3, Len(s)))
            IN  [ok |-> rest.ok,
                 bytes |-> <<16 * HexVal(s[1]) + HexVal(s[2])>> \o rest.bytes]
  ELSE [ok |-> FALSE, bytes |-> <<>>]

(***************************************************************************)
(* The three line patterns, matched with re.match (anchored at the start   *)
(* of the line, anything may follow the match).                            *)
(***************************************************************************)

NoMatch == [ok |-> FALSE, groups |-> <<>>]

\* START_RE = r"data\s*'(....)'\s*\(([^)]+)\)\s*{"
START_RE(line) ==
  LET q1    == SkipWhile(line, 5, Whitespace)       \* the opening quote
      q2    == q1 + 5                               \* the closing quote
      paren == SkipWhile(line, q2 + 1, Whitespace)  \* (
      close == SkipUntil(line, paren + 1, ")")      \* )
      brace == SkipWhile(line, close + 1, Whitespace)
  IN  IF /\ Slice(line, 1, IF Len(line) < 4 THEN Len(line) ELSE 4) = <<"d", "a", "t", "a">>
         /\ CharAt(line, q1) = "'"
         /\ \A i \in (q1 + 1)..(q1 + 4) : CharAt(line, i) \notin {"\n", "<eol>"}
         /\ CharAt(line, q2) = "'"
         /\ CharAt(line, paren) = "("
         /\ close > paren + 1
         /\ CharAt(line, close) = ")"
         /\ CharAt(line, brace) = "{"
      THEN [ok |-> TRUE,
            groups |-> <<Slice(line, q1 + 1, q1 + 4), Slice(line, paren + 1, close - 1)>>]
      ELSE NoMatch

\* DATA_RE = r"\s*\$\"([0-9A-Z\s]+)\""
DATA_RE(line) ==
  LET dollar == SkipWhile(line, 1, Whitespace)
      first  == dollar + 2
      quote  == SkipWhile(line, first, Digits \cup UpperAZ \cup Whitespace)
  IN  IF /\ CharAt(line, dollar) = "$"
         /\ CharAt(line, dollar + 1) = "\""
         /\ quote > first
         /\ CharAt(line, quote) = "\""
      THEN [ok |-> TRUE, groups |-> <<Slice(line, first, quote - 1)>>]
      ELSE NoMatch

\* END_RE = r"\s*};"
END_RE(line) ==
  LET brace == SkipWhile(line, 1, Whitespace)
  IN  IF CharAt(line, brace) = "}" /\ CharAt(line, brace + 1) = ";"
      THEN [ok |-> TRUE, groups |-> <<>>]
      ELSE NoMatch

\* QuickDrawViewer: START_RE = r"(....)\s*'(....)'\s*\((\d+)\s*([^)]*)\)\s*{"
ViewerSTART_RE(line) ==
  LET q1    == SkipWhile(line, 5, Whitespace)       \* the opening quote
      q2    == q1 + 5                               \* the closing quote
      paren == SkipWhile(line, q2 + 1, Whitespace)  \* (
      num   == SkipWhile(line, paren + 1, Digits)   \* first character after \d+
      rest  == SkipWhile(line, num, Whitespace)
      close == SkipUntil(line, rest, ")")           \* )
      brace == SkipWhile(line, close + 1, Whitespace)
  IN  IF /\ \A i \in 1..4 : CharAt(line, i) \notin {"\n", "<eol>"}
         /\ CharAt(line, q1) = "'"
         /\ \A i \in (q1 + 1)..(q1 + 4) : CharAt(line, i) \notin {"\n", "<eol>"}
         /\ CharAt(line, q2) = "'"
         /\ CharAt(line, paren) = "("
         /\ num > paren + 1
         /\ CharAt(line, close) = ")"
         /\ CharAt(line, brace) = "{"
      THEN [ok |-> TRUE,
            groups |-> <<Slice(line, 1, 4), Slice(line, q1 + 1, q1 + 4),
                         Slice(line, paren + 1, num - 1), Slice(line, rest, close - 1)>>]
      ELSE NoMatch

\* QuickDrawViewer: re.search(NAME_RE, s) with NAME_RE = r'\"([^\"]+)\"': the
\* leftmost quote followed by one or more other characters and a quote.
RECURSIVE NAME_RE(_, _)
NAME_RE(s, i) ==
  IF i > Len(s) THEN NoMatch
  ELSE IF /\ s[i] = "\""
          /\ SkipUntil(s, i + 1, "\"") > i + 1
          /\ SkipUntil(s, i + 1, "\"") <= Len(s)
       THEN [ok |-> TRUE, groups |-> <<Slice(s, i + 1, SkipUntil(s, i + 1, "\"") - 1)>>]
  ELSE NAME_RE(s, i + 1)

(***************************************************************************)
(* Input lines.  Each is one line of a DeRez dump as file iteration yields *)
(* it, with its newline.                                                   *)
(***************************************************************************)

\* data 'PICT' (7) {
HdrPict ==
  <<"d", "a", "t", "a", " ", "'", "P", "I", "C", "T", "'", " ", "(", "7", ")", " ", "{", "\n">>

\* data 'PICT' (8, "Ic") {
HdrPictNamed ==
  <<"d", "a", "t", "a", " ", "'", "P", "I", "C", "T", "'", " ", "(", "8", ",", " ", "\"", "I", "c", "\"", ")", " ", "{", "\n">>

\* data 'TEXT' (9) {
HdrText ==
  <<"d", "a", "t", "a", " ", "'", "T", "E", "X", "T", "'", " ", "(", "9", ")", " ", "{", "\n">>

\* data 'PICT' (7, ) {
HdrEmptyTag ==
  <<"d", "a", "t", "a", " ", "'", "P", "I", "C", "T", "'", " ", "(", "7", ",", " ", ")", " ", "{", "\n">>

\* <tab>$"AABB"
DataAABB ==
  <<"\t", "$", "\"", "A", "A", "B", "B", "\"", "\n">>

\* <tab>$"01 02"
Data0102 ==
  <<"\t", "$", "\"", "0", "1", " ", "0", "2", "\"", "\n">>

\* <tab>$"ABC"
DataOdd ==
  <<"\t", "$", "\"", "A", "B", "C", "\"", "\n">>

\* <tab>$"0G"
DataNonHex ==
  <<"\t", "$", "\"", "0", "G", "\"", "\n">>

\* };
EndLine ==
  <<"}", ";", "\n">>

\* /* x */
Comment ==
  <<"/", "*", " ", "x", " ", "*", "/", "\n">>

\* 'PICT' (128, "MyImage") {   (no token before the type)
HdrBare ==
  <<"'", "P", "I", "C", "T", "'", " ", "(", "1", "2", "8", ",", " ", "\"", "M", "y", "I", "m", "a", "g", "e", "\"", ")", " ", "{", "\n">>

\* $"0102"
Data0102Plain ==
  <<"$", "\"", "0", "1", "0", "2", "\"", "\n">>

\* $"01<tab>02"
DataTab ==
  <<"$", "\"", "0", "1", "\t", "0", "2", "\"", "\n">>

\* <tab>$"aabb"
DataLower ==
  <<"\t", "$", "\"", "a", "a", "b", "b", "\"", "\n">>

\* The lines an input file is made of.
Lines ==
  {HdrPict, HdrPictNamed, HdrText, HdrEmptyTag,
   DataAABB, Data0102, DataOdd, DataNonHex, EndLine, Comment}

\* The lines well-formed blocks are made of.
BlockLines ==
  {HdrPict, HdrPictNamed, HdrText, DataAABB, Data0102, EndLine}

\* Lines in the shapes a dump can take: a header with and without a token
\* before the type, hex text in upper and lower case, with and without
\* white space between the byte pairs.
ShapeLines ==
  {HdrPict, HdrBare, Data0102Plain, Data0102, DataTab, DataLower, EndLine}

(***************************************************************************)
(* Bounds                                                                  *)
(***************************************************************************)

\* Lines read in one run of main, over all its input files.
MaxLines == 4

\* The same, for the runs over BlockLines alone.
MaxBlockLines == 5

\* The same, for the runs over ShapeLines.
MaxShapeLines == 4

\* Input files on main's command line.
MaxFiles == 2

(***************************************************************************)
(* State                                                                   *)
(***************************************************************************)

\* The two copies of the script.
Variants == {"tools", "QuickDrawViewer"}

VARIABLES
  variant,          \* the copy of the script that is run
  pc,               \* "main": in main, between files; "scan": in derez_pict's
                    \* loop; "raised": an exception left main; "done"
  error,            \* the exception raised, or "none"
  file_type,        \* locals of derez_pict
  resource_number,
  resource_name,
  data,
  dir,              \* the files of out_dir: name -> bytes
  left,             \* the locals the previous call of derez_pict ended with
  consumed,         \* the lines of the current f_handle read so far
  writes,           \* the files written by the current call, in order
  nfiles,           \* input files opened so far
  nlines            \* lines read so far, over all files

vars ==
  <<variant, pc, error, file_type, resource_number, resource_name, data, dir,
    left, consumed, writes, nfiles, nlines>>

\* The part of the state the loop body of derez_pict reads and writes.
Frame ==
  [error |-> error, file_type |-> file_type, resource_number |-> resource_number,
   resource_name |-> resource_name, data |-> data, dir |-> dir, writes |-> writes]

\* b"\x00" * 512
PictHeaderLen == 512

Zeros(n) == [i \in 1..n |-> 0]

\* The least element of a non-empty set of integers.
Min2(S) == CHOOSE x \in S : \A y \in S : x <= y

PICT == <<"P", "I", "C", "T">>

\* str(x) of a str-or-None
Str(x) == IF x = None THEN <<"N", "o", "n", "e">> ELSE x

\* The file opened with 'ab': bytes are added to a file that exists.
WriteFileAppends(d, name, bytes) ==
  [n \in DOMAIN d \cup {name} |->
     IF n # name THEN d[n]
     ELSE IF name \in DOMAIN d THEN d[name] \o bytes ELSE bytes]

\* The write skipped when the file exists.
WriteFileKeepsFirst(d, name, bytes) ==
  [n \in DOMAIN d \cup {name} |->
     IF n = name /\ name \notin DOMAIN d THEN bytes ELSE d[n]]

\* open(os.path.join(out_dir, name), 'wb').write(bytes): the file is created
\* or replaced.
WriteFile(d, name, bytes) ==
  [n \in DOMAIN d \cup {name} |-> IF n = name THEN bytes ELSE d[n]]

(***************************************************************************)
(* derez_pict, src/tools/pict_de_rez.py                                    *)
(***************************************************************************)

\* The locals of a call that has not been made.
NoFrame ==
  [file_type |-> None, resource_number |-> None, resource_name |-> None,
   data |-> <<>>]

\* Locals that keep what the frame f holds, as module-level variables would.
LocalsCarried(f) ==
  [file_type |-> f.file_type, resource_number |-> f.resource_number,
   resource_name |-> f.resource_name, data |-> f.data]

\* Entry of derez_pict: the locals as lines 15-18 set them.  `f` is the frame
\* the previous call left behind; the new call reads nothing of it.
Locals(f) ==
  [file_type |-> None, resource_number |-> None, resource_name |-> None,
   data |-> <<>>]

\* Raising leaves the loop with the frame as it stands.
Raise(f, exc) == [f EXCEPT !.error = exc]

\* for tag in tags[1:]: if tag[0]=='"': resource_name = tag.strip('"')
\* tag[0] of an empty tag is an IndexError.
RECURSIVE ScanTags(_, _)
ScanTags(tags, name) ==
  IF tags = <<>> THEN [ok |-> TRUE, name |-> name]
  ELSE IF Head(tags) = <<>> THEN [ok |-> FALSE, name |-> name]
  ELSE ScanTags(Tail(tags),
                IF Head(tags)[1] = "\"" THEN Strip(Head(tags), {"\""}) ELSE name)

\* The header branch: the type and the number are taken from the line, the
\* name only when a later tag starts with a quote.  data is left as it is.
OnStart(f, groups) ==
  LET parts  == Split(groups[2], ",")
      tags   == [i \in 1..Len(parts) |-> Strip(parts[i], Whitespace)]
      named  == ScanTags(Tail(tags), f.resource_name)
      g      == [f EXCEPT !.file_type = groups[1],
                          !.resource_number = tags[1],
                          !.resource_name = named.name]
  IN  IF named.ok THEN g ELSE Raise(g, "IndexError")

\* The data branch with a line that does not decode skipped, not raised.
OnDataSkipsBad(f, groups) ==
  LET decoded == fromhex(Remove(groups[1], " "))
  IN  IF decoded.ok THEN [f EXCEPT !.data = f.data \o decoded.bytes] ELSE f

\* The data branch: spaces removed, the rest decoded and appended.
OnData(f, groups) ==
  LET line_data == Remove(groups[1], " ")
      decoded   == fromhex(line_data)
  IN  IF decoded.ok THEN [f EXCEPT !.data = f.data \o decoded.bytes]
      ELSE Raise(f, "ValueError")

\* 'R' + str(resource_number) + '.' + file_type, or the name in place of the
\* first two.  Concatenating None to a str is a TypeError.
OutName(f) ==
  IF Truthy(f.resource_name) THEN f.resource_name \o <<".">> \o f.file_type
  ELSE <<"R">> \o Str(f.resource_number) \o <<".">> \o f.file_type

\* The test on the type left out: every block is written.
IsPictAlways(ftype) == TRUE

\* if file_type == 'PICT'
IsPict(ftype) == ftype = PICT

\* The header put before data that already carries one.
WithHeaderTwice(bytes) == Zeros(PictHeaderLen) \o Zeros(PictHeaderLen) \o bytes

\* b"\x00" * 512 + data
WithHeader(bytes) == Zeros(PictHeaderLen) \o bytes

\* Reset with `data = b""` left out.
ResetKeepsData(f) == [f EXCEPT !.resource_name = None]

\* Reset with `resource_name = None` left out.
ResetKeepsName(f) == [f EXCEPT !.data = <<>>]

\* data = b""; resource_name = None
Reset(f) == [f EXCEPT !.data = <<>>, !.resource_name = None]

\* The end branch.
OnEnd(f) ==
  IF f.file_type = None THEN Raise(f, "TypeError")
  ELSE IF IsPict(f.file_type)
       THEN LET out == WithHeader(f.data)
            IN  Reset([f EXCEPT !.dir = WriteFile(f.dir, OutName(f), out),
                                !.writes = Append(f.writes, <<OutName(f), out>>)])
  ELSE Reset(f)

\* An unmatched line taken for the end of the resource.
OnOtherResets(f) == [f EXCEPT !.data = <<>>, !.resource_name = None]

\* A line none of the three patterns matches.
OnOther(f) == f

\* One iteration of `for line in f_handle`.
LoopBody(f, line) ==
  IF START_RE(line).ok THEN OnStart(f, START_RE(line).groups)
  ELSE IF DATA_RE(line).ok THEN OnData(f, DATA_RE(line).groups)
  ELSE IF END_RE(line).ok THEN OnEnd(f)
  ELSE OnOther(f)

(***************************************************************************)
(* derez_pict, src/QuickDrawViewer/pict_de_rez.py.  Its locals file_name   *)
(* and data_type are held in the frame's resource_name and file_type; its  *)
(* own file_type is set to None and never read.  data_type is bound with   *)
(* file_name, by the header branch, so it is never read unbound: the end   *)
(* branch fails on file_name first.                                        *)
(***************************************************************************)

\* The header branch: file_name is the first quoted name of the descriptor,
\* else the number.  data is left as it is.
ViewerOnStart(f, groups) ==
  LET name_match == NAME_RE(groups[4], 1)
  IN  [f EXCEPT !.file_type = groups[2],
                !.resource_number = groups[3],
                !.resource_name = IF name_match.ok THEN name_match.groups[1]
                                  ELSE Str(groups[3])]

\* out_name = file_name + "." + data_type
ViewerOutName(f) == f.resource_name \o <<".">> \o f.file_type

\* The end branch: file_name + "." of a file_name still None is a TypeError;
\* data alone is reset.
ViewerOnEnd(f) ==
  IF f.resource_name = None THEN Raise(f, "TypeError")
  ELSE IF IsPict(f.file_type)
       THEN LET out == WithHeader(f.data)
            IN  [f EXCEPT !.dir = WriteFile(f.dir, ViewerOutName(f), out),
                          !.writes = Append(f.writes, <<ViewerOutName(f), out>>),
                          !.data = <<>>]
  ELSE [f EXCEPT !.data = <<>>]

\* One iteration of `for line in f_handle`.
ViewerLoopBody(f, line) ==
  IF ViewerSTART_RE(line).ok THEN ViewerOnStart(f, ViewerSTART_RE(line).groups)
  ELSE IF DATA_RE(line).ok THEN OnData(f, DATA_RE(line).groups)
  ELSE IF END_RE(line).ok THEN ViewerOnEnd(f)
  ELSE OnOther(f)

RECURSIVE ViewerLoop(_, _)
ViewerLoop(f, lines) ==
  IF lines = <<>> \/ f.error # "none" THEN f
  ELSE ViewerLoop(ViewerLoopBody(f, Head(lines)), Tail(lines))

\* derez_pict(f_handle, out_dir) of QuickDrawViewer as a whole.
Viewer_derez_pict(lines, d) ==
  ViewerLoop([error |-> "none", file_type |-> Locals(NoFrame).file_type,
              resource_number |-> Locals(NoFrame).resource_number,
              resource_name |-> Locals(NoFrame).resource_name,
              data |-> Locals(NoFrame).data, dir |-> d, writes |-> <<>>], lines)

\* derez_pict(f_handle, out_dir) as a whole, on a file of the given lines and
\* a directory holding the files d: the frame it ends with.
RECURSIVE Loop(_, _)
Loop(f, lines) ==
  IF lines = <<>> \/ f.error # "none" THEN f
  ELSE Loop(LoopBody(f, Head(lines)), Tail(lines))

derez_pict(lines, d) ==
  Loop([error |-> "none", file_type |-> Locals(NoFrame).file_type,
        resource_number |-> Locals(NoFrame).resource_number,
        resource_name |-> Locals(NoFrame).resource_name,
        data |-> Locals(NoFrame).data, dir |-> d, writes |-> <<>>], lines)

(***************************************************************************)
(* The program                                                             *)
(***************************************************************************)

Init ==
  /\ variant \in Variants
  /\ pc = "main"
  /\ error = "none"
  /\ file_type = NoFrame.file_type
  /\ resource_number = NoFrame.resource_number
  /\ resource_name = NoFrame.resource_name
  /\ data = NoFrame.data
  /\ dir = <<>>
  /\ left = NoFrame
  /\ consumed = <<>>
  /\ writes = <<>>
  /\ nfiles = 0
  /\ nlines = 0

\* main opens the next file of argv and calls derez_pict on it.
Call ==
  /\ pc = "main"
  /\ nfiles < MaxFiles
  /\ pc' = "scan"
  /\ nfiles' = nfiles + 1
  /\ LET l == Locals(Frame)
     IN  /\ file_type' = l.file_type
         /\ resource_number' = l.resource_number
         /\ resource_name' = l.resource_name
         /\ data' = l.data
  /\ consumed' = <<>>
  /\ writes' = <<>>
  /\ UNCHANGED <<variant, error, dir, left, nlines>>

\* derez_pict reads the next line of the file and handles it.
ReadLine(line, max) ==
  /\ pc = "scan"
  /\ nlines < max
  /\ nlines' = nlines + 1
  /\ consumed' = Append(consumed, line)
  /\ LET g == IF variant = "tools" THEN LoopBody(Frame, line)
              ELSE ViewerLoopBody(Frame, line)
     IN  /\ error' = g.error
         /\ file_type' = g.file_type
         /\ resource_number' = g.resource_number
         /\ resource_name' = g.resource_name
         /\ data' = g.data
         /\ dir' = g.dir
         /\ writes' = g.writes
         /\ pc' = IF g.error = "none" THEN "scan" ELSE "raised"
  /\ UNCHANGED <<variant, left, nfiles>>

\* The return with a flush added: a PICT block still open at the end of the
\* file is written.
ReturnFlushes ==
  /\ pc = "scan"
  /\ pc' = "main"
  /\ left' = [file_type |-> file_type, resource_number |-> resource_number,
              resource_name |-> resource_name, data |-> data]
  /\ dir' = IF IsPict(file_type) /\ data # <<>>
            THEN WriteFile(dir, OutName(Frame), WithHeader(data))
            ELSE dir
  /\ UNCHANGED <<variant, error, file_type, resource_number, resource_name,
                 data, consumed, writes, nfiles, nlines>>

\* The file has no more lines: derez_pict returns to main.
Return ==
  /\ pc = "scan"
  /\ pc' = "main"
  /\ left' = [file_type |-> file_type, resource_number |-> resource_number,
              resource_name |-> resource_name, data |-> data]
  /\ UNCHANGED <<variant, error, file_type, resource_number, resource_name,
                 data, dir, consumed, writes, nfiles, nlines>>

\* argv has no more files: main returns.
Exit ==
  /\ pc = "main"
  /\ pc' = "done"
  /\ UNCHANGED <<variant, error, file_type, resource_number, resource_name,
                 data, dir, left, consumed, writes, nfiles, nlines>>

\* Input files of any lines.
Next ==
  \/ Call
  \/ \E line \in Lines : ReadLine(line, MaxLines)
  \/ Return
  \/ Exit

Spec == Init /\ [][Next]_vars

\* One input file made of the lines of well-formed blocks, in any order.
NextBlocks ==
  \/ nfiles = 0 /\ Call
  \/ \E line \in BlockLines : ReadLine(line, MaxBlockLines)
  \/ Return
  \/ Exit

SpecBlocks == Init /\ [][NextBlocks]_vars

\* One input file made of lines in the shapes of ShapeLines.
NextShapes ==
  \/ nfiles = 0 /\ Call
  \/ \E line \in ShapeLines : ReadLine(line, MaxShapeLines)
  \/ Return
  \/ Exit

SpecShapes == Init /\ [][NextShapes]_vars

(***************************************************************************)
(* The input as the claims describe it: lines by shape, and the blocks     *)
(* (header line, data lines, end line) of a stream.                        *)
(***************************************************************************)

\* What the header pattern of the running copy finds in a line: whether it
\* matches, the type and the descriptor (number and what follows it).
HeaderMatch(line) ==
  IF variant = "tools"
  THEN LET m == START_RE(line)
       IN  [ok |-> m.ok, type |-> IF m.ok THEN m.groups[1] ELSE <<>>,
            descriptor |-> IF m.ok THEN m.groups[2] ELSE <<>>]
  ELSE LET m == ViewerSTART_RE(line)
       IN  [ok |-> m.ok, type |-> IF m.ok THEN m.groups[2] ELSE <<>>,
            descriptor |-> IF m.ok THEN m.groups[3] \o m.groups[4] ELSE <<>>]

IsHeader(line) == HeaderMatch(line).ok

IsData(line) == ~IsHeader(line) /\ DATA_RE(line).ok

IsEnd(line) == ~IsHeader(line) /\ ~IsData(line) /\ END_RE(line).ok

IsOther(line) == ~IsHeader(line) /\ ~IsData(line) /\ ~IsEnd(line)

\* The characters between the quotes of a data line, whitespace left out.
HexText(line) ==
  SelectSeq(DATA_RE(line).groups[1], LAMBDA c : c \notin Whitespace)

\* A data line whose content is an even number of hex digits.
IsValidData(line) ==
  /\ IsData(line)
  /\ Len(HexText(line)) % 2 = 0
  /\ \A i \in 1..Len(HexText(line)) : IsHexDigit(HexText(line)[i])

\* The bytes a valid data line stands for.
BytesOfLine(line) ==
  [i \in 1..(Len(HexText(line)) \div 2) |->
     16 * HexVal(HexText(line)[2 * i - 1]) + HexVal(HexText(line)[2 * i])]

\* The comma-separated parts of a header's descriptor, trimmed.
PartsOf(header) ==
  LET parts == Split(HeaderMatch(header).descriptor, ",")
  IN  [i \in 1..Len(parts) |-> Strip(parts[i], Whitespace)]

TypeOf(header) == HeaderMatch(header).type

NumberOf(header) == PartsOf(header)[1]

\* A part that is a quoted string with some content and no quote inside.
IsQuoted(part) ==
  /\ Len(part) >= 3
  /\ part[1] = "\""
  /\ part[Len(part)] = "\""
  /\ \A i \in 2..(Len(part) - 1) : part[i] # "\""

\* The positions, after the first, of the quoted parts of a header.
QuotedAt(header) ==
  {i \in 2..Len(PartsOf(header)) : IsQuoted(PartsOf(header)[i])}

HasDisplayName(header) == QuotedAt(header) # {}

\* The display name of a header that has one: the content of its last
\* quoted part.
DisplayNameOf(header) ==
  LET i    == CHOOSE k \in QuotedAt(header) : \A m \in QuotedAt(header) : m <= k
      part == PartsOf(header)[i]
  IN  SubSeq(part, 2, Len(part) - 1)

\* A header of the documented form: a decimal identifier, then parts that
\* are a quoted display name or an unquoted annotation.
IsWellFormedHeader(line) ==
  /\ IsHeader(line)
  /\ NumberOf(line) # <<>>
  /\ \A i \in 1..Len(NumberOf(line)) : NumberOf(line)[i] \in Digits
  /\ \A i \in 2..Len(PartsOf(line)) :
       LET part == PartsOf(line)[i]
       IN  /\ part # <<>>
           /\ IsQuoted(part) \/ \A k \in 1..Len(part) : part[k] # "\""

\* The name the documentation gives the file of a block with this header.
FileNameOf(header) ==
  (IF HasDisplayName(header) THEN DisplayNameOf(header)
   ELSE <<"R">> \o NumberOf(header)) \o <<".">> \o TypeOf(header)

\* lines is a sequence of well-formed blocks, the last of them possibly
\* still open; open tells whether a block is open before the first line.
RECURSIVE BlocksFrom(_, _)
BlocksFrom(lines, open) ==
  IF lines = <<>> THEN TRUE
  ELSE IF open
       THEN \/ IsValidData(Head(lines)) /\ BlocksFrom(Tail(lines), TRUE)
            \/ IsEnd(Head(lines)) /\ BlocksFrom(Tail(lines), FALSE)
  ELSE IsWellFormedHeader(Head(lines)) /\ BlocksFrom(Tail(lines), TRUE)

IsWellFormed(lines) == BlocksFrom(lines, FALSE)

\* The positions of the end lines and of the header lines of a stream.
EndsOf(lines) == {i \in 1..Len(lines) : IsEnd(lines[i])}

HeadersOf(lines) == {i \in 1..Len(lines) : IsHeader(lines[i])}

\* The position of the last header line before position i (0 if none).
HeaderBefore(lines, i) ==
  IF \E h \in HeadersOf(lines) : h < i
  THEN CHOOSE h \in HeadersOf(lines) : h < i /\ \A k \in HeadersOf(lines) : k < i => k <= h
  ELSE 0

\* The bytes of the valid data lines at positions lo..hi, in order.
RECURSIVE PayloadOf(_, _, _)
PayloadOf(lines, lo, hi) ==
  IF lo > hi THEN <<>>
  ELSE (IF IsValidData(lines[lo]) THEN BytesOfLine(lines[lo]) ELSE <<>>)
         \o PayloadOf(lines, lo + 1, hi)

\* The end lines of the PICT blocks of a well-formed stream, in order.
RECURSIVE Ascending(_)
Ascending(S) ==
  IF S = {} THEN <<>>
  ELSE LET m == CHOOSE x \in S : \A y \in S : x <= y
       IN  <<m>> \o Ascending(S \ {m})

PictEndsOf(lines) ==
  Ascending({e \in EndsOf(lines) :
               HeaderBefore(lines, e) > 0 /\ TypeOf(lines[HeaderBefore(lines, e)]) = PICT})

(***************************************************************************)
(* C1.  In a stream of well-formed blocks, the file written for each PICT   *)
(* block holds 512 zero bytes followed by the bytes of the data lines of    *)
(* that block alone, in input order: the k-th file written is the one of    *)
(* the k-th PICT block, and nothing of an earlier block is in it.  Checked  *)
(* for both copies of the script.                                           *)
(***************************************************************************)
C1_OwnPayload ==
  IsWellFormed(consumed) =>
    LET ends == PictEndsOf(consumed)
    IN  /\ Len(writes) = Len(ends)
        /\ \A k \in 1..Len(ends) :
             writes[k][2] =
               Zeros(512) \o PayloadOf(consumed, HeaderBefore(consumed, ends[k]) + 1,
                                       ends[k] - 1)

\* A second block has been written after a first block that carried data,
\* and a block with two different data lines has been written.
C1_Witness ==
  /\ IsWellFormed(consumed)
  /\ Len(writes) >= 1
  /\ Cardinality(EndsOf(consumed)) = 2
  /\ PayloadOf(consumed, 1, Min2(EndsOf(consumed))) # <<>>
  /\ IsEnd(consumed[Len(consumed)])
  /\ TypeOf(consumed[HeaderBefore(consumed, Len(consumed))]) = PICT

(***************************************************************************)
(* C2.  In a stream of well-formed blocks, the file of each PICT block is   *)
(* named from that block's own header: <display name>.PICT when the header  *)
(* carries a quoted display name, R<identifier>.PICT when it does not,      *)
(* whatever the headers of the blocks before it carried (tools copy).       *)
(***************************************************************************)
C2_OwnName ==
  (variant = "tools" /\ IsWellFormed(consumed)) =>
    LET ends == PictEndsOf(consumed)
    IN  /\ Len(writes) = Len(ends)
        /\ \A k \in 1..Len(ends) :
             writes[k][1] = FileNameOf(consumed[HeaderBefore(consumed, ends[k])])

\* A block without display name has been written after a block with one:
\* the files are Ic.PICT, then R7.PICT.
C2_Witness ==
  /\ IsWellFormed(consumed)
  /\ Len(writes) = 2
  /\ writes[1][1] = <<"I", "c", ".", "P", "I", "C", "T">>
  /\ writes[2][1] = <<"R", "7", ".", "P", "I", "C", "T">>

(***************************************************************************)
(* Streams that are not made of well-formed blocks only.                   *)
(***************************************************************************)

Last(seq) == seq[Len(seq)]

\* No resource is open before the line at position i: no header precedes it,
\* or an end line lies between the last header and it.
IsIdleAt(lines, i) ==
  \/ HeaderBefore(lines, i) = 0
  \/ \E e \in EndsOf(lines) : HeaderBefore(lines, i) < e /\ e < i

\* The header at position h arrives while a resource is still open.
IsAbandoning(lines, h) == IsHeader(lines[h]) /\ ~IsIdleAt(lines, h)

\* The positions of the valid data lines met while no resource is open.
StrayDataOf(lines) ==
  {i \in 1..Len(lines) : IsValidData(lines[i]) /\ IsIdleAt(lines, i)}

\* lines without the lines at the positions of S.
RECURSIVE Without(_, _, _)
Without(lines, S, i) ==
  IF i > Len(lines) THEN <<>>
  ELSE (IF i \in S THEN <<>> ELSE <<lines[i]>>) \o Without(lines, S, i + 1)

\* The files a stream of well-formed blocks is documented to give, in the
\* order of the end lines: name and bytes.
FilesOf(lines) ==
  LET ends == PictEndsOf(lines)
  IN  [k \in 1..Len(ends) |->
         <<FileNameOf(lines[HeaderBefore(lines, ends[k])]),
           Zeros(512) \o PayloadOf(lines, HeaderBefore(lines, ends[k]) + 1, ends[k] - 1)>>]

(***************************************************************************)
(* C3.  A header line that arrives while a resource is still open discards  *)
(* the unfinished payload and name: the file written at the next end line   *)
(* holds 512 zero bytes and the data lines after the latest header only,    *)
(* and is named from the latest header only (tools copy).                   *)
(***************************************************************************)
C3_HeaderDiscards ==
  LET e == Len(consumed)
      h == HeaderBefore(consumed, e)
  IN  ( /\ variant = "tools"
        /\ pc = "scan"
        /\ e >= 1
        /\ IsEnd(consumed[e])
        /\ h > 0
        /\ IsWellFormedHeader(consumed[h])
        /\ TypeOf(consumed[h]) = PICT
        /\ IsAbandoning(consumed, h)
        /\ \A i \in (h + 1)..(e - 1) : IsValidData(consumed[i]) )
      => /\ writes # <<>>
         /\ Last(writes) =
              <<FileNameOf(consumed[h]), Zeros(512) \o PayloadOf(consumed, h + 1, e - 1)>>

(***************************************************************************)
(* C4.  A valid data line met while no resource is open is a no-op: a       *)
(* stream that is well-formed blocks with such lines before or between them *)
(* gives the files of the stream without them (tools copy).                 *)
(***************************************************************************)
C4_StrayDataIgnored ==
  LET kept == Without(consumed, StrayDataOf(consumed), 1)
  IN  (variant = "tools" /\ pc = "scan" /\ StrayDataOf(consumed) # {}
         /\ IsWellFormed(kept))
      => writes = FilesOf(kept)

(***************************************************************************)
(* C5.  No line-format violation raises: when every data-shaped line read   *)
(* carries valid even-length hex, derez_pict has not raised.                *)
(***************************************************************************)
C5_NeverRaises ==
  (variant = "tools" /\ \A i \in 1..Len(consumed) : IsData(consumed[i]) => IsValidData(consumed[i]))
  => pc # "raised"

(***************************************************************************)
(* C6.  Each header/payload/end triple yields at most one file, an end line *)
(* met while idle writes none: the files written by a call never outnumber  *)
(* the header lines it has read.                                            *)
(***************************************************************************)
C6_WritesWithinHeaders ==
  variant = "tools" => Len(writes) <= Cardinality(HeadersOf(consumed))

(***************************************************************************)
(* Steps of the scan, as the claims speak of them.                         *)
(***************************************************************************)

\* This step is derez_pict reading one more line.
ReadsLine == pc = "scan" /\ Len(consumed') = Len(consumed) + 1

\* The line this step reads.
LineRead == consumed'[Len(consumed')]

\* The locals of the running call, the files it has written and the
\* exception it has raised are those of derez_pict run on `lines` alone.
IsResultOf(lines) ==
  LET r == IF variant = "tools" THEN derez_pict(lines, <<>>)
           ELSE Viewer_derez_pict(lines, <<>>)
  IN  /\ error = r.error
      /\ file_type = r.file_type
      /\ resource_number = r.resource_number
      /\ resource_name = r.resource_name
      /\ data = r.data
      /\ writes = r.writes

(***************************************************************************)
(* C7.  A block whose type is not PICT produces no file: reading the end    *)
(* line of a block whose header carries another type leaves the output      *)
(* directory unchanged.                                                     *)
(***************************************************************************)
C7_NonPictWritesNothing ==
  [][ ( /\ ReadsLine
        /\ IsEnd(LineRead)
        /\ HeaderBefore(consumed', Len(consumed')) > 0
        /\ TypeOf(consumed'[HeaderBefore(consumed', Len(consumed'))]) # PICT )
      => (dir' = dir /\ writes' = writes /\ pc' = "scan") ]_vars

\* The end line of a TEXT block that carried data has been read.
C7_Witness ==
  /\ pc = "scan"
  /\ Len(consumed) >= 3
  /\ IsEnd(Last(consumed))
  /\ HeaderBefore(consumed, Len(consumed)) > 0
  /\ TypeOf(consumed[HeaderBefore(consumed, Len(consumed))]) # PICT
  /\ PayloadOf(consumed, HeaderBefore(consumed, Len(consumed)) + 1, Len(consumed)) # <<>>

(***************************************************************************)
(* C8.  A data line whose content has odd length or a non-hex character     *)
(* makes derez_pict raise a decode error at that line, writing nothing, and *)
(* nothing is written after it: the files written before stay as they are. *)
(***************************************************************************)
C8_DecodeErrorStops ==
  [][ /\ (ReadsLine /\ IsData(LineRead) /\ ~IsValidData(LineRead))
         => (pc' = "raised" /\ error' = "ValueError" /\ dir' = dir /\ writes' = writes)
      /\ pc = "raised" => (pc' = "raised" /\ dir' = dir) ]_vars

\* A decode error has been raised inside an open resource carrying data,
\* after an earlier resource was written.
C8_Witness ==
  /\ pc = "raised"
  /\ error = "ValueError"
  /\ writes # <<>>
  /\ ~IsIdleAt(consumed, Len(consumed))
  /\ DOMAIN dir # {}

(***************************************************************************)
(* C9.  Lines that match none of the three shapes change nothing: reading   *)
(* one leaves the parser state and the directory as they are, and the state *)
(* reached on a stream is the one reached on the stream without them.       *)
(***************************************************************************)
C9_UnrecognisedIgnored ==
  /\ [][ (ReadsLine /\ IsOther(LineRead))
         => UNCHANGED <<pc, error, file_type, resource_number, resource_name,
                        data, dir, writes>> ]_vars
  /\ [](pc \in {"scan", "raised"}
          => IsResultOf(SelectSeq(consumed, LAMBDA l : ~IsOther(l))))

\* A file has been written for a block with an unrecognised line between
\* its header and its data.
C9_Witness ==
  /\ pc = "scan"
  /\ writes # <<>>
  /\ Len(Last(writes)[2]) > 512
  /\ \E i \in 2..(Len(consumed) - 1) :
       /\ IsOther(consumed[i])
       /\ IsHeader(consumed[i - 1])
       /\ IsValidData(consumed[i + 1])

(***************************************************************************)
(* C10.  No parser state goes from one input file to the next: whatever the *)
(* previous file left, a call is in the state, and has written the files,   *)
(* that the lines of its own file alone give.                               *)
(***************************************************************************)
C10_FilesIndependent ==
  pc \in {"scan", "raised"} => IsResultOf(consumed)

\* The second file has written a file after the first one ended inside an
\* unterminated named block with data.
C10_Witness ==
  /\ pc = "scan"
  /\ nfiles = 2
  /\ Truthy(left.resource_name)
  /\ left.data # <<>>
  /\ writes # <<>>

(***************************************************************************)
(* Running a copy of the script on given lines and a given directory.      *)
(***************************************************************************)

RunOn(lines, d) ==
  IF variant = "tools" THEN derez_pict(lines, d) ELSE Viewer_derez_pict(lines, d)

(***************************************************************************)
(* C11.  Running the extractor again on the same input and the same output *)
(* directory changes nothing: the directory the lines read so far have     *)
(* produced is the directory a second run on those lines and on that       *)
(* directory produces, and the second run ends as the first did.           *)
(***************************************************************************)
C11_RerunIdempotent ==
  pc \in {"scan", "raised"} =>
    /\ RunOn(consumed, dir).dir = dir
    /\ RunOn(consumed, dir).error = error

\* A run has written a file with a payload, and a second run writes the
\* same files over it.
C11_Witness ==
  /\ pc = "scan"
  /\ writes # <<>>
  /\ Len(Last(writes)[2]) > 512
  /\ Last(writes)[1] \in DOMAIN dir
  /\ RunOn(consumed, dir).writes = writes

(***************************************************************************)
(* C12.  A header line opens a resource whether or not a token precedes    *)
(* the quoted type: the header 'PICT' (128, "MyImage") { followed by the   *)
(* data line $"0102" and an end line yields the file MyImage.PICT holding  *)
(* 512 zero bytes and then 01 02.                                          *)
(***************************************************************************)
MyImagePICT ==
  <<"M", "y", "I", "m", "a", "g", "e", ".", "P", "I", "C", "T">>

C12_BareHeaderOpens ==
  /\ consumed = <<HdrBare>> => pc = "scan" /\ file_type = PICT
  /\ consumed = <<HdrBare, Data0102Plain, EndLine>> =>
       /\ pc = "scan"
       /\ writes = << <<MyImagePICT, Zeros(PictHeaderLen) \o <<1, 2>> >> >>
       /\ MyImagePICT \in DOMAIN dir
       /\ dir[MyImagePICT] = Zeros(PictHeaderLen) \o <<1, 2>>

(***************************************************************************)
(* C13.  Descriptor parsing in the tools copy: reading a header line never *)
(* raises; the first trimmed part of the descriptor becomes the numeric    *)
(* identifier; the content of the last quoted later part becomes the       *)
(* display name, and parts that are not quoted leave the name as it is.    *)
(***************************************************************************)
C13_DescriptorParsed ==
  [][ (variant = "tools" /\ ReadsLine /\ IsHeader(LineRead)) =>
        /\ pc' = "scan"
        /\ resource_number' = NumberOf(LineRead)
        /\ resource_name' = IF HasDisplayName(LineRead)
                            THEN DisplayNameOf(LineRead)
                            ELSE resource_name ]_vars

(***************************************************************************)
(* C14.  Files are written only while an end line is processed, one whole  *)
(* file per write: a step that is not the reading of an end line leaves    *)
(* the directory as it is and writes nothing; the reading of an end line   *)
(* writes at most one file, whole; and a call that has read no end line    *)
(* has written no file, whatever header and data lines it has read.        *)
(***************************************************************************)
C14_WritesOnlyAtEnd ==
  /\ [][ ~(ReadsLine /\ IsEnd(LineRead)) =>
           (dir' = dir /\ Len(writes') <= Len(writes)) ]_vars
  /\ [][ (ReadsLine /\ IsEnd(LineRead)) =>
           \/ dir' = dir /\ writes' = writes
           \/ /\ Len(writes') = Len(writes) + 1
              /\ SubSeq(writes', 1, Len(writes)) = writes
              /\ dir' = WriteFile(dir, Last(writes')[1], Last(writes')[2]) ]_vars
  /\ [](EndsOf(consumed) = {} => writes = <<>>)

\* A file ended after a PICT header and data lines with no end line: the
\* call has returned with the payload in its locals and no file written.
C14_Witness ==
  /\ pc = "main"
  /\ nfiles = 1
  /\ consumed # <<>>
  /\ IsHeader(consumed[1])
  /\ IsPict(left.file_type)
  /\ left.data # <<>>
  /\ writes = <<>>
  /\ dir = <<>>

(***************************************************************************)
(* C15.  When PICT blocks of one run get the same file name, the files are *)
(* written in the order of the end lines and the later replaces the        *)
(* earlier: in a stream of well-formed blocks no error is raised, the k-th *)
(* write is that of the k-th PICT block, and each file of the directory    *)
(* holds 512 zero bytes and the payload of the last block written under    *)
(* its name, and nothing of the blocks written under that name before.     *)
(***************************************************************************)
LastWriteOf(name) ==
  CHOOSE j \in 1..Len(writes) :
    /\ writes[j][1] = name
    /\ \A i \in 1..Len(writes) : writes[i][1] = name => i <= j

C15_LaterOverwrites ==
  IsWellFormed(consumed) =>
    LET ends == PictEndsOf(consumed)
    IN  /\ error = "none"
        /\ Len(writes) = Len(ends)
        /\ \A k \in 1..Len(ends) :
             LET name == writes[k][1]
                 e    == ends[LastWriteOf(name)]
             IN  /\ name \in DOMAIN dir
                 /\ dir[name] =
                      Zeros(PictHeaderLen)
                        \o PayloadOf(consumed, HeaderBefore(consumed, e) + 1, e - 1)

\* Two PICT blocks with different payloads have been written under one
\* name, and the file holds the second.
C15_Witness ==
  /\ IsWellFormed(consumed)
  /\ Len(writes) = 2
  /\ writes[1][1] = writes[2][1]
  /\ writes[1][2] # writes[2][2]
  /\ dir[writes[2][1]] = writes[2][2]

(***************************************************************************)
(* Data lines as the documentation describes them: $"..." with hexadecimal *)
(* digits of either case and white space between the quotes.               *)
(***************************************************************************)

HexChars == {HexUpper[i] : i \in 1..16} \cup {HexLower[i] : i \in 1..16}

\* The position of the closing quote of a documented data line, 0 when the
\* line is not one.
SpecDataQuote(line) ==
  LET dollar == SkipWhile(line, 1, Whitespace)
      quote  == SkipWhile(line, dollar + 2, HexChars \cup Whitespace)
  IN  IF /\ CharAt(line, dollar) = "$"
         /\ CharAt(line, dollar + 1) = "\""
         /\ quote > dollar + 2
         /\ CharAt(line, quote) = "\""
      THEN quote ELSE 0

IsSpecData(line) == SpecDataQuote(line) > 0

\* The hex digits of a documented data line, white space left out.
SpecDigits(line) ==
  SelectSeq(Slice(line, SkipWhile(line, 1, Whitespace) + 2, SpecDataQuote(line) - 1),
            LAMBDA c : c \notin Whitespace)

\* The bytes an even number of hex digits stands for.
SpecBytes(line) ==
  [i \in 1..(Len(SpecDigits(line)) \div 2) |->
     16 * HexVal(SpecDigits(line)[2 * i - 1]) + HexVal(SpecDigits(line)[2 * i])]

(***************************************************************************)
(* C16.  A line of the shape $"..." is taken as a data line exactly when   *)
(* its content is made of hexadecimal digits (0-9, A-F, a-f) and white     *)
(* space only; reading such a line with an even number of digits appends   *)
(* the bytes it stands for to the payload, and never leaves the payload as *)
(* it was.                                                                 *)
(***************************************************************************)
C16_HexLinesAreData ==
  /\ [][ ReadsLine => (IsData(LineRead) <=> IsSpecData(LineRead)) ]_vars
  /\ [][ (ReadsLine /\ IsSpecData(LineRead) /\ Len(SpecDigits(LineRead)) % 2 = 0) =>
           (pc' = "scan" /\ data' = data \o SpecBytes(LineRead)) ]_vars

(***************************************************************************)
(* White space in a data line.                                             *)
(***************************************************************************)

\* The text between the quotes of a documented data line.
SpecDataText(line) ==
  Slice(line, SkipWhile(line, 1, Whitespace) + 2, SpecDataQuote(line) - 1)

\* The hex digits of s come in adjacent pairs: white space stands between
\* byte pairs only.
RECURSIVE InPairs(_)
InPairs(s) ==
  IF s = <<>> THEN TRUE
  ELSE IF Head(s) \in Whitespace THEN InPairs(Tail(s))
  ELSE Len(s) >= 2 /\ s[2] \notin Whitespace /\ InPairs(SubSeq(s, 3, Len(s)))

\* The data line with the white space between its quotes taken out.
Squeezed(line) ==
  SubSeq(line, 1, SkipWhile(line, 1, Whitespace) + 1)
    \o SpecDigits(line)
    \o SubSeq(line, SpecDataQuote(line), Len(line))

\* One iteration of the loop of the copy that is run.
StepOn(f, line) ==
  IF variant = "tools" THEN LoopBody(f, line) ELSE ViewerLoopBody(f, line)

(***************************************************************************)
(* C17.  White space between the byte pairs of a data line does not count: *)
(* reading a data line with spaces or tabs between its byte pairs leaves   *)
(* the payload (and the error state) that reading the same line without    *)
(* the white space leaves, and when the line is taken as a data line the   *)
(* payload grows by the bytes of its digits ($"01 02", $"01<tab>02" and    *)
(* $"0102" all append 01 02).                                              *)
(***************************************************************************)
C17_WhitespaceInsignificant ==
  [][ (ReadsLine /\ IsSpecData(LineRead) /\ InPairs(SpecDataText(LineRead))) =>
        /\ data' = StepOn(Frame, Squeezed(LineRead)).data
        /\ error' = StepOn(Frame, Squeezed(LineRead)).error
        /\ IsData(LineRead) =>
             (pc' = "scan" /\ data' = data \o SpecBytes(LineRead)) ]_vars

\* A block has taken a line with a space and a line with a tab between the
\* byte pairs: its payload is 01 02 01 02.
C17_Witness ==
  /\ pc = "scan"
  /\ Len(consumed) = 3
  /\ IsHeader(consumed[1])
  /\ consumed[2] = Data0102
  /\ consumed[3] = DataTab
  /\ Squeezed(DataTab) = Data0102Plain
  /\ data = <<1, 2, 1, 2>>

(***************************************************************************)
(* The two copies side by side.                                            *)
(***************************************************************************)

\* Each line is a header for both copies or for neither, and the first
\* part of a header's descriptor is a decimal number.
RecognisedByBoth(lines) ==
  \A i \in 1..Len(lines) :
    /\ START_RE(lines[i]).ok <=> ViewerSTART_RE(lines[i]).ok
    /\ START_RE(lines[i]).ok =>
         LET id == Strip(Split(START_RE(lines[i]).groups[2], ",")[1], Whitespace)
         IN  id # <<>> /\ \A k \in 1..Len(id) : id[k] \in Digits

(***************************************************************************)
(* C18.  The two copies of derez_pict differ in the fallback name only: on *)
(* every stream whose headers both recognise they write the same number of *)
(* files with the same bytes, under the same name or, for a block without  *)
(* display name, under names that differ by the leading R of the tools     *)
(* copy.                                                                   *)
(***************************************************************************)
C18_VariantsAgree ==
  RecognisedByBoth(consumed) =>
    LET t == derez_pict(consumed, <<>>).writes
        v == Viewer_derez_pict(consumed, <<>>).writes
    IN  /\ Len(t) = Len(v)
        /\ \A k \in 1..Len(t) :
             /\ t[k][2] = v[k][2]
             /\ t[k][1] = v[k][1] \/ t[k][1] = <<"R">> \o v[k][1]

(***************************************************************************)
(* C19.  Whatever the lines, every file written has a name ending in .PICT *)
(* and at least 512 bytes, the first 512 of them zero, and the 512-byte    *)
(* header is put before the payload exactly once: the bytes after it are   *)
(* the bytes of the data lines read since the end line before, no more.    *)
(***************************************************************************)
DotPICT == <<".">> \o PICT

\* The position of the last end line before position i (0 if none).
EndBefore(lines, i) ==
  IF \E e \in EndsOf(lines) : e < i
  THEN CHOOSE e \in EndsOf(lines) : e < i /\ \A k \in EndsOf(lines) : k < i => k <= e
  ELSE 0

C19_HeaderOnce ==
  /\ \A name \in DOMAIN dir :
       /\ Len(name) >= Len(DotPICT)
       /\ SubSeq(name, Len(name) - Len(DotPICT) + 1, Len(name)) = DotPICT
       /\ Len(dir[name]) >= PictHeaderLen
       /\ SubSeq(dir[name], 1, PictHeaderLen) = Zeros(PictHeaderLen)
  /\ LET ends == PictEndsOf(consumed)
     IN  /\ Len(writes) = Len(ends)
         /\ \A k \in 1..Len(ends) :
              /\ writes[k][1] \in DOMAIN dir
              /\ writes[k][2] =
                   Zeros(PictHeaderLen)
                     \o PayloadOf(consumed, EndBefore(consumed, ends[k]) + 1, ends[k] - 1)

\* A run over a stream that is not made of well-formed blocks has ended
\* without raising, with a file that has a payload and a file that has none.
C19_Witness ==
  /\ pc = "main"
  /\ error = "none"
  /\ ~IsWellFormed(consumed)
  /\ Len(writes) = 2
  /\ Len(writes[1][2]) > PictHeaderLen
  /\ Len(writes[2][2]) = PictHeaderLen

=============================================================================
